---- MODULE Spec2Model ----
(***************************************************************************)
(* A model of backend/open_webui/utils/middleware.py: the response side    *)
(* of the chat pipeline (process_chat_response, its detached streaming     *)
(* consumer post_response_handler, the fallback stream_wrapper and the     *)
(* background_tasks_handler) and the request side (process_chat_payload    *)
(* with chat_completion_filter_functions_handler and                       *)
(* chat_completion_tools_handler).                                         *)
(*                                                                         *)
(* Text (message content, titles, deltas) is a sequence of tokens, so that *)
(* f"{content}{value}" is \o and "extends" is a prefix test.  Every call   *)
(* to a collaborator (store, live transport, webhook sender, task          *)
(* registry, title/tag generation, the upstream body iterator) is appended *)
(* to `trace` in program order.                                            *)
(***************************************************************************)
EXTENDS Naturals, Sequences, FiniteSets, TLC

(* ------------------------------ bounds --------------------------------- *)
\* Longest upstream body (number of chunks) and longest list of
\* pre-accumulated events explored.
MaxChunks == 2
MaxEvents == 1
\* Number of filter functions known to the installation, and the longest
\* filter chain that is run to its end.
MaxFilters == 3
MaxChain == 2

VARIABLES
    ENABLE_REALTIME_CHAT_SAVE, \* open_webui.env flag
    metadata,       \* [session_id, chat_id, message_id], each "missing", "" or an id
    response,       \* the upstream response handed to process_chat_response
    events,         \* pre-accumulated events (each persisted verbatim as one field set)
    tasks,          \* requested background tasks: [title, tags]
    history,        \* contents of the ancestor messages before the current one
    initial,        \* the store as it was when process_chat_response was called
    store,          \* the persisted message (chat_id, message_id), the chat title and tags
    registry,       \* open_webui.tasks: ids of the registered background tasks
    pc,             \* position of the running coroutine
    caller,         \* who runs background_tasks_handler: "dispatcher" or "task"
    content,        \* local `content`
    title,          \* local `title`
    data,           \* local `data`: the payload of the next chat:completion event
    evIdx,          \* pre-accumulated events already replayed / yielded
    nread,          \* chunks taken from response.body_iterator
    upstream,       \* the lines response.body_iterator has produced, in order
    cancelAt,       \* "" or the pc at which the task's CancelledError was delivered
    raised,         \* whether a collaborator call has raised in this turn
    result,         \* what process_chat_response returned ("none" before it returns)
    wire,           \* what the StreamingResponse built around stream_wrapper has yielded
    trace,          \* collaborator calls so far, in program order
    alphabet,       \* the lines response.body_iterator can produce in this run
    global_ids,     \* ids of Functions.get_global_filter_functions(), in order
    model,          \* the model: whether it has info.meta, and its meta.filterIds
    enabled,        \* ids of Functions.get_functions_by_type("filter", active_only=True)
    priority,       \* valves priority of each filter function (0 when it has none)
    form_data,      \* the envelope handed to process_chat_payload
    filter_ids,     \* local `filter_ids` of the filter chain runner
    fidx,           \* filters of filter_ids the loop is done with
    envelope,       \* the envelope (`body`) as the running stage holds it
    skip_files,     \* local `skip_files` of the running stage: "None", "True", "False"
    user,           \* extra_params["__user__"]: the filter whose valves it carries, 0 if none
    tools,          \* local `tools` of the tool stage
    selected,       \* the tool call parsed from the sub-call content
    sources,        \* local `sources` of the tool stage
    calls           \* plugin and sub-model calls of process_chat_payload, in order

inputs == <<ENABLE_REALTIME_CHAT_SAVE, metadata, response, events, tasks, history, initial,
            alphabet>>
locals == <<content, title, data, evIdx, nread, upstream>>
\* the state of process_chat_payload and its two stages
payload == <<global_ids, model, enabled, priority, form_data, filter_ids, fidx, envelope,
             skip_files, user, tools, selected, sources, calls>>
\* the state of process_chat_response and what it starts
responding == <<ENABLE_REALTIME_CHAT_SAVE, metadata, response, events, tasks, history,
                initial, alphabet, store, registry, caller, content, title, data, evIdx,
                nread, upstream, cancelAt, raised, result, wire, trace>>
vars == <<ENABLE_REALTIME_CHAT_SAVE, metadata, response, events, tasks, history, initial,
          store, registry, pc, caller, content, title, data, evIdx, nread, upstream,
          cancelAt, raised, result, wire, trace, alphabet, global_ids, model, enabled,
          priority, form_data, filter_ids, fidx, envelope, skip_files, user, tools, selected,
          sources, calls>>

(* ------------------------------ text ----------------------------------- *)
IsPrefix(s, t) == Len(s) <= Len(t) /\ SubSeq(t, 1, Len(s)) = s

(* --------------------------- trace entries ----------------------------- *)
Entry(op, tag, shape, c, t, n) ==
    [op |-> op, tag |-> tag, shape |-> shape, content |-> c, title |-> t, n |-> n]

\* await event_emitter({"type": type, "data": ...})
EmitEntry(type, shape, c, t, n) == Entry("emit", type, shape, c, t, n)
\* Chats.upsert_message_to_chat_by_id_and_message_id(chat_id, message_id, {field: c})
UpsertEntry(field, c, n) == Entry("upsert", field, "", c, <<>>, n)
\* the terminal event {"done": True, "content": c, "title": t}
DoneEvent(c, t) == EmitEntry("chat:completion", "done", c, t, 0)
CancelledEvent == EmitEntry("task-cancelled", "", <<>>, <<>>, 0)

NoData == [shape |-> "", content |-> <<>>, n |-> 0]

(* ------------------------------ store ---------------------------------- *)
\* Chats.upsert_message_to_chat_by_id_and_message_id with {"content": c}
UpsertContent(s, c) == [s EXCEPT !.exists = TRUE, !.content = c]
\* ... with {"selectedModelId": ...}
UpsertSelectedModel(s) == [s EXCEPT !.exists = TRUE, !.selectedModelId = TRUE]
\* ... with {**event}: the event's own fields, here a `sources` field
UpsertEvent(s, e) == [s EXCEPT !.exists = TRUE, !.sources = @ \cup {e}]

\* message.get("content", "") if message else ""
\* variant: the consumer starts from empty content whatever is persisted
ReadContentFresh(s) == <<>>
ReadContent(s) == IF s.exists THEN s.content ELSE <<>>

(* --------------------------- upstream chunks --------------------------- *)
\* One line of response.body_iterator:
\*   blank   the line is empty or white space
\*   prefix  the line starts with "data: "
\*   body    what follows the prefix: "[DONE]", "garbage" (not JSON), or a JSON
\*           object: "selected" (has selected_model_id), "delta" (choices[0].delta
\*           has content `value`), "role" (choices[0].delta has no content),
\*           "usage" (choices is empty or absent)
Line(blank, prefix, body, value) ==
    [blank |-> blank, prefix |-> prefix, body |-> body, value |-> value]
BlankLine == Line(TRUE, FALSE, "", <<>>)
RawJsonLine == Line(FALSE, FALSE, "delta", <<"a">>)
DoneLine == Line(FALSE, TRUE, "[DONE]", <<>>)
GarbageLine == Line(FALSE, TRUE, "garbage", <<>>)
SelectedLine == Line(FALSE, TRUE, "selected", <<>>)
RoleLine == Line(FALSE, TRUE, "role", <<>>)
EmptyDeltaLine == Line(FALSE, TRUE, "delta", <<>>)
UsageLine == Line(FALSE, TRUE, "usage", <<>>)
DeltaLine(v) == Line(FALSE, TRUE, "delta", <<v>>)

\* the lines an upstream body is drawn from
StreamAlphabet == {DeltaLine("a"), DeltaLine("b"), SelectedLine, RoleLine}

\* json.loads(data) succeeds
ParsesAsJson(line) == line.body \in {"selected", "delta", "role", "usage"}

\* variant: the "data: " prefix is not required
ChunkClassNoPrefix(line) ==
    IF line.blank THEN "skip"
    ELSE IF ~ParsesAsJson(line) THEN "skip"
    ELSE IF line.body = "selected" THEN "selected"
    ELSE IF line.body = "usage" THEN "skip"
    ELSE IF line.value # <<>> THEN "delta"
    ELSE "plain"

\* What one iteration of the chunk loop does with `line`:
\*   "skip"     continue before or at json.loads (or a swallowed exception)
\*   "selected" selectedModelId is persisted, the event is re-emitted
\*   "delta"    content grows by line.value, the event is emitted
\*   "plain"    the event is re-emitted, content untouched
ChunkClass(line) ==
    IF line.blank THEN "skip"
    ELSE IF ~line.prefix THEN "skip"
    ELSE IF ~ParsesAsJson(line) THEN "skip"
    ELSE IF line.body = "selected" THEN "selected"
    ELSE IF line.body = "usage" THEN "skip"   \* [][0] raises IndexError, swallowed
    ELSE IF line.value # <<>> THEN "delta"
    ELSE "plain"

(* ------------------------------ inputs --------------------------------- *)
Target == [session_id |-> "s1", chat_id |-> "c1", message_id |-> "m1"]
MetadataChoices ==
    {Target}
    \cup {[Target EXCEPT ![k] = v] :
            k \in {"session_id", "chat_id", "message_id"}, v \in {"missing", ""}}

\* "k" in metadata and metadata["k"]
Truthy(v) == v \notin {"missing", ""}
\* variant: the session id is not looked at
HasTargetNoSession(md) == Truthy(md.chat_id) /\ Truthy(md.message_id)
HasTarget(md) == Truthy(md.session_id) /\ Truthy(md.chat_id) /\ Truthy(md.message_id)

ImmediateResponses ==
    [kind : {"immediate"}, ctype : {""}, background : {FALSE},
     selected : BOOLEAN, content : {<<>>, <<"h", "i">>}]
StreamingResponses ==
    [kind : {"stream"},
     ctype : {"text/event-stream", "application/x-ndjson", "text/plain"},
     background : BOOLEAN, selected : {FALSE}, content : {<<>>}]

\* any(content_type in response.headers["Content-Type"] for ...)
IsStreamType(ctype) == ctype \in {"text/event-stream", "application/x-ndjson"}

EventLists == {[i \in 1..n |-> i] : n \in 0..MaxEvents}

\* tasks[TASKS.TITLE_GENERATION] is absent, False ("off") or True ("on");
\* history is the ancestor path without the current message
Scenarios ==
    {[title |-> "absent", tags |-> FALSE, history |-> <<<<"q1">>>>],
     [title |-> "off", tags |-> FALSE, history |-> <<<<"q1">>>>],
     [title |-> "off", tags |-> FALSE, history |-> <<<<"q1">>, <<"r1">>, <<"q2">>>>],
     [title |-> "on", tags |-> TRUE, history |-> <<<<"q1">>>>]}

InitialStores ==
    {[exists |-> e, content |-> IF e THEN <<"x">> ELSE <<>>, selectedModelId |-> FALSE,
      sources |-> {}, title |-> <<"T0">>, tags |-> FALSE] : e \in BOOLEAN}

(* ------------------------- request envelope --------------------------- *)
\* body["metadata"]: absent, or a mapping whose "files" key is "absent", "none"
\* (present, None) or "some", and which may carry tool ids
Metadata(present, files, tool_ids) ==
    [present |-> present, files |-> files, tool_ids |-> tool_ids]
NoMetadata == Metadata(FALSE, "absent", FALSE)

\* form_data: the messages, the top-level "files" and "tool_ids" entries, and the
\* "metadata" entry the caller may have put there
Envelopes ==
    [messages : {<<"u1">>}, files : BOOLEAN, tool_ids : BOOLEAN,
     metadata : {NoMetadata, Metadata(TRUE, "absent", FALSE), Metadata(TRUE, "some", FALSE)}]

FilterIds == 1..MaxFilters
NoTools == [resolved |-> FALSE, citation |-> FALSE, file_handler |-> FALSE]
NoSelection == [name |-> "", params |-> {}, mapping |-> TRUE]

\* process_chat_payload is not running
PayloadIdle ==
    /\ global_ids = <<>>
    /\ model = [has_meta |-> FALSE, filterIds |-> <<>>]
    /\ enabled = {}
    /\ priority = [f \in FilterIds |-> 0]
    /\ form_data = [messages |-> <<"u1">>, files |-> FALSE, tool_ids |-> FALSE,
                    metadata |-> NoMetadata]
    /\ filter_ids = <<>>
    /\ fidx = 0
    /\ envelope = form_data
    /\ skip_files = "None"
    /\ user = 0
    /\ tools = NoTools
    /\ selected = NoSelection
    /\ sources = <<>>
    /\ calls = <<>>

Init ==
    /\ PayloadIdle
    /\ alphabet = StreamAlphabet
    /\ ENABLE_REALTIME_CHAT_SAVE \in BOOLEAN
    /\ metadata \in MetadataChoices
    /\ response \in ImmediateResponses \cup StreamingResponses
    /\ events \in EventLists
    /\ response.kind = "immediate" => events = <<>>
    /\ \E sc \in Scenarios :
         /\ tasks = [title |-> sc.title, tags |-> sc.tags]
         /\ history = sc.history
    \* without a target neither tasks nor the flag is read
    /\ ~HasTarget(metadata) =>
         tasks = [title |-> "absent", tags |-> FALSE] /\ ~ENABLE_REALTIME_CHAT_SAVE
    \* ndjson bodies are explored with no background task requested
    /\ response.ctype = "application/x-ndjson" => tasks.title = "absent"
    /\ initial \in InitialStores
    /\ store = initial
    /\ registry = {}
    /\ pc = "call"
    /\ caller = "dispatcher"
    /\ content = <<>>
    /\ title = <<>>
    /\ data = NoData
    /\ evIdx = 0
    /\ nread = 0
    /\ upstream = <<>>
    /\ cancelAt = ""
    /\ raised = FALSE
    /\ result = [kind |-> "none", task_id |-> "", ctype |-> "", background |-> FALSE]
    /\ wire = <<>>
    /\ trace = <<>>

(* ------------------------- shared fragments ---------------------------- *)
\* get_active_status_by_user_id(user.id), Users.get_user_webhook_url_by_id(user.id)
\* and post_webhook(...): presence is "active", "idle" (no webhook URL) or "idle_url"
Presences == {"active", "idle", "idle_url"}
WebhookSteps(p, c, t) ==
    <<Entry("presence", p, "", <<>>, <<>>, 0)>>
    \o (IF p = "idle_url" THEN <<Entry("webhook", "chat", "", c, t, 0)>> ELSE <<>>)

Returned(kind, task_id) ==
    [kind |-> kind, task_id |-> task_id, ctype |-> response.ctype,
     background |-> response.background]

(* ----------------------- process_chat_response ------------------------- *)
\* not isinstance(response, StreamingResponse)
DispatchImmediate ==
    /\ pc = "call"
    /\ response.kind = "immediate"
    /\ IF HasTarget(metadata)
       THEN /\ store' = IF response.selected THEN UpsertSelectedModel(store) ELSE store
            /\ trace' = trace \o (IF response.selected
                                  THEN <<UpsertEntry("selectedModelId", <<>>, 0)>>
                                  ELSE <<>>)
            /\ IF response.content # <<>>
               THEN pc' = "imm_full" /\ result' = result
               ELSE pc' = "returned" /\ result' = Returned("response", "")
       ELSE /\ pc' = "returned"
            /\ result' = Returned("response", "")
            /\ UNCHANGED <<store, trace>>
    /\ UNCHANGED <<inputs, payload, locals, registry, caller, cancelAt, raised, wire>>

\* await event_emitter({"type": "chat:completion", "data": response}), then the
\* title is read
ImmEmitResponse ==
    /\ pc = "imm_full"
    /\ content' = response.content
    /\ trace' = Append(trace, EmitEntry("chat:completion", "response", response.content, <<>>, 0))
    /\ title' = store.title
    /\ pc' = "imm_terminal"
    /\ UNCHANGED <<inputs, payload, store, registry, caller, data, evIdx, nread, upstream, cancelAt, raised,
                   result, wire>>

\* variant: the content is written before the terminal event is emitted
ImmFinalStepsWriteFirst(p) ==
    <<UpsertEntry("content", content, 0), DoneEvent(content, title)>>
    \o WebhookSteps(p, content, title)
\* the terminal event, the content write and the idle-user webhook
ImmFinalSteps(p) ==
    <<DoneEvent(content, title), UpsertEntry("content", content, 0)>>
    \o WebhookSteps(p, content, title)

ImmEmitTerminal ==
    /\ pc = "imm_terminal"
    /\ \E p \in Presences : trace' = trace \o ImmFinalSteps(p)
    /\ store' = UpsertContent(store, content)
    /\ pc' = "bg"
    /\ UNCHANGED <<inputs, payload, locals, registry, caller, cancelAt, raised, result, wire>>

\* a StreamingResponse whose Content-Type is neither event-stream nor ndjson
DispatchPassthrough ==
    /\ pc = "call"
    /\ response.kind = "stream"
    /\ ~IsStreamType(response.ctype)
    /\ pc' = "returned"
    /\ result' = Returned("response", "")
    /\ UNCHANGED <<inputs, payload, locals, store, registry, caller, cancelAt, raised, wire, trace>>

\* create_task(post_response_handler(response, events)): the registry names the
\* task and schedules it; the id it returns replaces the uuid4 made before
NewTaskId == "task1"
CreateTask == [id |-> NewTaskId, registry |-> registry \cup {NewTaskId}]
\* variant: the uuid4 made before create_task is returned
StaleTaskId(created) == "uuid4"
ReturnedTaskId(created) == created.id

DispatchDetached ==
    /\ pc = "call"
    /\ response.kind = "stream"
    /\ IsStreamType(response.ctype)
    /\ HasTarget(metadata)
    /\ LET created == CreateTask
       IN /\ registry' = created.registry
          /\ result' = Returned("task", ReturnedTaskId(created))
    /\ trace' = Append(trace, Entry("create_task", NewTaskId, "", <<>>, <<>>, 0))
    /\ caller' = "task"
    /\ pc' = "start"
    /\ UNCHANGED <<inputs, payload, locals, store, cancelAt, raised, wire>>

\* StreamingResponse(stream_wrapper(response.body_iterator, events),
\*                   headers=dict(response.headers), background=response.background)
DispatchWrapped ==
    /\ pc = "call"
    /\ response.kind = "stream"
    /\ IsStreamType(response.ctype)
    /\ ~HasTarget(metadata)
    /\ result' = Returned("wrapped", "")
    /\ pc' = "wrap"
    /\ UNCHANGED <<inputs, payload, locals, store, registry, caller, cancelAt, raised, wire, trace>>

(* --------------------------- stream_wrapper ---------------------------- *)
\* wrap_item(json.dumps(event)) == f"data: {item}\n\n"
WrapItem(event) == [framed |-> TRUE, event |-> event, line |-> BlankLine]
RawItem(line) == [framed |-> FALSE, event |-> 0, line |-> line]

WrapYieldEvent ==
    /\ pc = "wrap"
    /\ evIdx < Len(events)
    /\ wire' = Append(wire, WrapItem(events[evIdx + 1]))
    /\ evIdx' = evIdx + 1
    /\ UNCHANGED <<inputs, payload, store, registry, pc, caller, content, title, data, nread, upstream,
                   cancelAt, raised, result, trace>>

WrapYieldChunk ==
    /\ pc = "wrap"
    /\ evIdx = Len(events)
    /\ nread < MaxChunks
    /\ \E line \in alphabet :
         /\ upstream' = Append(upstream, line)
         /\ wire' = Append(wire, RawItem(line))
    /\ nread' = nread + 1
    /\ UNCHANGED <<inputs, payload, store, registry, pc, caller, content, title, data, evIdx,
                   cancelAt, raised, result, trace>>

WrapEnd ==
    /\ pc = "wrap"
    /\ evIdx = Len(events)
    /\ pc' = "wrap_done"
    /\ UNCHANGED <<inputs, payload, locals, store, registry, caller, cancelAt, raised, result,
                   wire, trace>>

(* ----------------------- post_response_handler ------------------------- *)
\* message = Chats.get_message_by_id_and_message_id(...); content = ...
TaskStart ==
    /\ pc = "start"
    /\ content' = ReadContent(store)
    /\ pc' = IF events = <<>> THEN "read" ELSE "replay"
    /\ UNCHANGED <<inputs, payload, store, registry, caller, title, data, evIdx, nread, upstream, cancelAt,
                   raised, result, wire, trace>>

\* for event in events: emit it, then persist it verbatim
ReplaySteps(e) ==
    <<EmitEntry("chat:completion", "event", <<>>, <<>>, e), UpsertEntry("sources", <<>>, e)>>

ReplayEvent ==
    /\ pc = "replay"
    /\ evIdx < Len(events)
    /\ trace' = trace \o ReplaySteps(events[evIdx + 1])
    /\ store' = UpsertEvent(store, events[evIdx + 1])
    /\ evIdx' = evIdx + 1
    /\ pc' = IF evIdx + 1 = Len(events) THEN "read" ELSE "replay"
    /\ UNCHANGED <<inputs, payload, registry, caller, content, title, data, nread, upstream, cancelAt, raised,
                   result, wire>>

ReadEntry(line, n) == Entry("read", line.body, ChunkClass(line), line.value, <<>>, n)

\* variant: the running content is sent where the delta belongs
DeltaPayloadRunning(realtime, running, value) ==
    [shape |-> IF realtime THEN "delta" ELSE "content", content |-> running, n |-> 0]
\* `data` as it stands when the loop body reaches its event_emitter call
DeltaPayload(realtime, running, value) ==
    IF realtime
    THEN [shape |-> "delta", content |-> value, n |-> 0]
    ELSE [shape |-> "content", content |-> running, n |-> 0]

\* variant: the flag is tested the wrong way round
DeltaWritesInverted(realtime, running) ==
    IF ~realtime THEN <<UpsertEntry("content", running, 0)>> ELSE <<>>
\* the store calls of one loop iteration that found a delta
DeltaWrites(realtime, running) ==
    IF realtime THEN <<UpsertEntry("content", running, 0)>> ELSE <<>>

\* async for line in response.body_iterator: one iteration, up to its
\* event_emitter call (or its `continue`)
ReadChunk ==
    /\ pc = "read"
    /\ nread < MaxChunks
    /\ nread' = nread + 1
    /\ \E line \in alphabet :
         LET class == ChunkClass(line)
             rd == ReadEntry(line, nread + 1)
             running == content \o line.value
         IN /\ upstream' = Append(upstream, line)
            /\ CASE class = "skip" ->
                      /\ trace' = Append(trace, rd)
                      /\ pc' = "read"
                      /\ UNCHANGED <<store, content, data>>
                 [] class = "selected" ->
                      /\ trace' = trace \o <<rd, UpsertEntry("selectedModelId", <<>>, 0)>>
                      /\ store' = UpsertSelectedModel(store)
                      /\ data' = [shape |-> "selected", content |-> <<>>, n |-> 0]
                      /\ pc' = "emit"
                      /\ UNCHANGED content
                 [] class = "delta" ->
                      /\ content' = running
                      /\ trace' = trace \o <<rd>> \o DeltaWrites(ENABLE_REALTIME_CHAT_SAVE, running)
                      /\ store' = IF ENABLE_REALTIME_CHAT_SAVE
                                  THEN UpsertContent(store, running)
                                  ELSE store
                      /\ data' = DeltaPayload(ENABLE_REALTIME_CHAT_SAVE, running, line.value)
                      /\ pc' = "emit"
                 [] class = "plain" ->
                      /\ trace' = Append(trace, rd)
                      /\ data' = [shape |-> "plain", content |-> <<>>, n |-> 0]
                      /\ pc' = "emit"
                      /\ UNCHANGED <<store, content>>
    /\ UNCHANGED <<inputs, payload, registry, caller, title, evIdx, cancelAt, raised, result, wire>>

\* await event_emitter({"type": "chat:completion", "data": data}) in the loop
EmitChunk ==
    /\ pc = "emit"
    /\ trace' = Append(trace, EmitEntry("chat:completion", data.shape, data.content, <<>>, 0))
    /\ data' = NoData
    /\ pc' = "read"
    /\ UNCHANGED <<inputs, payload, store, registry, caller, content, title, evIdx, nread, upstream, cancelAt,
                   raised, result, wire>>

\* variant: the final content write is left out
FinishStepsNoWrite(realtime, c, t, p) ==
    <<Entry("exhausted", "", "", <<>>, <<>>, 0), Entry("get_title", "", "", <<>>, t, 0)>>
    \o WebhookSteps(p, c, t)
\* variant: the webhook fires before the final content write
FinishStepsWebhookFirst(realtime, c, t, p) ==
    <<Entry("exhausted", "", "", <<>>, <<>>, 0), Entry("get_title", "", "", <<>>, t, 0)>>
    \o WebhookSteps(p, c, t)
    \o (IF ~realtime THEN <<UpsertEntry("content", c, 0)>> ELSE <<>>)
\* after the loop, up to the terminal event_emitter call: the title is read, the
\* final content is written when real-time persistence is off, the webhook fires
FinishSteps(realtime, c, t, p) ==
    <<Entry("exhausted", "", "", <<>>, <<>>, 0), Entry("get_title", "", "", <<>>, t, 0)>>
    \o (IF ~realtime THEN <<UpsertEntry("content", c, 0)>> ELSE <<>>)
    \o WebhookSteps(p, c, t)

Finish ==
    /\ pc = "read"
    /\ title' = store.title
    /\ \E p \in Presences :
         trace' = trace \o FinishSteps(ENABLE_REALTIME_CHAT_SAVE, content, store.title, p)
    /\ store' = IF ENABLE_REALTIME_CHAT_SAVE THEN store ELSE UpsertContent(store, content)
    /\ data' = [shape |-> "done", content |-> content, n |-> 0]
    /\ pc' = "terminal"
    /\ UNCHANGED <<inputs, payload, registry, caller, content, evIdx, nread, upstream, cancelAt, raised,
                   result, wire>>

\* await event_emitter({"type": "chat:completion", "data": data}) after the loop
EmitTerminal ==
    /\ pc = "terminal"
    /\ trace' = Append(trace, DoneEvent(data.content, title))
    /\ pc' = "bg"
    /\ UNCHANGED <<inputs, payload, locals, store, registry, caller, cancelAt, raised, result, wire>>

\* variant: the partial content is not saved
CancelStepsNoSave(realtime, c) == <<CancelledEvent>>
\* except asyncio.CancelledError: the task-cancelled event, then the partial save
CancelSteps(realtime, c) ==
    <<CancelledEvent>> \o (IF ~realtime THEN <<UpsertEntry("content", c, 0)>> ELSE <<>>)

HandleCancel ==
    /\ pc = "cancelled"
    /\ trace' = trace \o CancelSteps(ENABLE_REALTIME_CHAT_SAVE, content)
    /\ store' = IF ENABLE_REALTIME_CHAT_SAVE THEN store ELSE UpsertContent(store, content)
    /\ pc' = "cleanup"
    /\ UNCHANGED <<inputs, payload, locals, registry, caller, cancelAt, raised, result, wire>>

\* if response.background is not None: await response.background()
CleanupSteps(background) ==
    IF background THEN <<Entry("background", "", "", <<>>, <<>>, 0)>> ELSE <<>>

Cleanup ==
    /\ pc = "cleanup"
    /\ trace' = trace \o CleanupSteps(response.background)
    /\ pc' = "done"
    /\ UNCHANGED <<inputs, payload, locals, store, registry, caller, cancelAt, raised, result, wire>>

(* ---------------------- background_tasks_handler ----------------------- *)
\* the handler returns: to the consumer's cleanup, or process_chat_response
\* returns the original response
BgReturn ==
    IF caller = "task"
    THEN pc' = "cleanup" /\ result' = result
    ELSE pc' = "returned" /\ result' = Returned("response", "")

\* if TASKS.TAGS_GENERATION in tasks and tasks[TASKS.TAGS_GENERATION]
TagsOrReturn ==
    IF tasks.tags THEN pc' = "gen_tags" /\ result' = result ELSE BgReturn

SetTitleEntry(t) == Entry("set_title", "", "", <<>>, t, 0)

\* messages = get_message_list(message_map, message.get("id"))
Messages == history \o <<store.content>>

\* the payload of the chat:title event of the branch taken when title
\* generation is requested but not enabled
FirstExchangeTitleData(derived, message) == message

\* up to the first await of the handler
BgStart ==
    /\ pc = "bg"
    /\ IF ~store.exists
       THEN BgReturn /\ UNCHANGED <<store, data, trace>>
       ELSE IF tasks.title = "on"
       THEN pc' = "gen_title" /\ UNCHANGED <<store, data, trace, result>>
       ELSE IF tasks.title = "off" /\ Len(Messages) = 2
       THEN /\ store' = [store EXCEPT !.title = Messages[1]]
            /\ trace' = Append(trace, SetTitleEntry(Messages[1]))
            /\ data' = [shape |-> "title", n |-> 0,
                        content |-> FirstExchangeTitleData(Messages[1], store.content)]
            /\ pc' = "emit_title"
            /\ UNCHANGED result
       ELSE TagsOrReturn /\ UNCHANGED <<store, data, trace>>
    /\ UNCHANGED <<inputs, payload, registry, caller, content, title, evIdx, nread, upstream, cancelAt, raised,
                   wire>>

\* res of generate_title: "none" (falsy or not a dict), "ok" (content "T1"),
\* "blank" (content is white space only)
TitleResults == {"none", "ok", "blank"}
\* the title taken from res: stripped content, else the first message's content
TitleFrom(res, messages) == IF res = "ok" THEN <<"T1">> ELSE messages[1]

GenTitle ==
    /\ pc = "gen_title"
    /\ \E res \in TitleResults :
         LET called == Entry("generate_title", res, "", <<>>, <<>>, 0)
             t == TitleFrom(res, Messages)
         IN IF res = "none"
            THEN /\ trace' = Append(trace, called)
                 /\ TagsOrReturn
                 /\ UNCHANGED <<store, data>>
            ELSE /\ trace' = trace \o <<called, SetTitleEntry(t)>>
                 /\ store' = [store EXCEPT !.title = t]
                 /\ data' = [shape |-> "title", content |-> t, n |-> 0]
                 /\ pc' = "emit_title"
                 /\ UNCHANGED result
    /\ UNCHANGED <<inputs, payload, registry, caller, content, title, evIdx, nread, upstream, cancelAt, raised,
                   wire>>

EmitTitle ==
    /\ pc = "emit_title"
    /\ trace' = Append(trace, EmitEntry("chat:title", "title", data.content, <<>>, 0))
    /\ data' = NoData
    /\ TagsOrReturn
    /\ UNCHANGED <<inputs, payload, store, registry, caller, content, title, evIdx, nread, upstream, cancelAt,
                   raised, wire>>

\* res of generate_chat_tags: "none", "ok" (a JSON object with tags), "bad"
\* (json.loads raises; printed and swallowed)
TagsResults == {"none", "ok", "bad"}

GenTags ==
    /\ pc = "gen_tags"
    /\ \E res \in TagsResults :
         LET called == Entry("generate_chat_tags", res, "", <<>>, <<>>, 0)
         IN IF res = "ok"
            THEN /\ trace' = trace \o <<called, Entry("set_tags", "", "", <<>>, <<>>, 0)>>
                 /\ store' = [store EXCEPT !.tags = TRUE]
                 /\ pc' = "emit_tags"
                 /\ UNCHANGED result
            ELSE /\ trace' = Append(trace, called)
                 /\ BgReturn
                 /\ UNCHANGED store
    /\ UNCHANGED <<inputs, payload, locals, registry, caller, cancelAt, raised, wire>>

EmitTags ==
    /\ pc = "emit_tags"
    /\ trace' = Append(trace, EmitEntry("chat:tags", "tags", <<>>, <<>>, 0))
    /\ BgReturn
    /\ UNCHANGED <<inputs, payload, locals, store, registry, caller, cancelAt, raised, wire>>

(* ---------------------------- cancellation ----------------------------- *)
\* the awaits of the detached task: the CancelledError of task.cancel() is
\* raised at the one the task is suspended in
EmitPcs == {"replay", "emit", "terminal", "emit_title", "emit_tags"}
AwaitPcs == EmitPcs \cup {"read", "gen_title", "gen_tags", "cleanup"}

\* what the awaited call delivers
PendingEmit ==
    CASE pc = "replay" -> EmitEntry("chat:completion", "event", <<>>, <<>>, events[evIdx + 1])
      [] pc = "emit" -> EmitEntry("chat:completion", data.shape, data.content, <<>>, 0)
      [] pc = "terminal" -> DoneEvent(data.content, title)
      [] pc = "emit_title" -> EmitEntry("chat:title", "title", data.content, <<>>, 0)
      [] OTHER -> EmitEntry("chat:tags", "tags", <<>>, <<>>, 0)

\* where a CancelledError raised at `at` is handled: inside the try block by the
\* except clause, after it by nobody
CancelTarget(at) == IF at = "cleanup" THEN "aborted" ELSE "cancelled"

\* The awaits after which the coroutine would run code with side effects before
\* it suspends again: there the awaited call may also have taken effect when the
\* CancelledError is raised. At the other awaits that run is the one cancelled
\* at the next await.
DeliveredPcs == {"replay", "terminal"}

\* The task is cancelled once.
Cancel ==
    /\ caller = "task"
    /\ cancelAt = ""
    /\ pc \in AwaitPcs
    /\ pc = "cleanup" => response.background
    /\ cancelAt' = pc
    /\ \E delivered \in BOOLEAN :
         /\ delivered => pc \in DeliveredPcs
         /\ trace' = IF delivered THEN Append(trace, PendingEmit) ELSE trace
    /\ pc' = CancelTarget(pc)
    /\ UNCHANGED <<inputs, payload, locals, store, registry, caller, raised, result, wire>>

(* --------------------------- specification ----------------------------- *)
Next ==
    \/ DispatchImmediate
    \/ ImmEmitResponse
    \/ ImmEmitTerminal
    \/ DispatchPassthrough
    \/ DispatchDetached
    \/ DispatchWrapped
    \/ WrapYieldEvent
    \/ WrapYieldChunk
    \/ WrapEnd
    \/ TaskStart
    \/ ReplayEvent
    \/ ReadChunk
    \/ EmitChunk
    \/ Finish
    \/ EmitTerminal
    \/ HandleCancel
    \/ Cleanup
    \/ BgStart
    \/ GenTitle
    \/ EmitTitle
    \/ GenTags
    \/ EmitTags
    \/ Cancel

Spec == Init /\ [][Next]_vars

(* ----------------------- failing collaborators ------------------------- *)
\* A collaborator call (store, live transport, webhook sender, title or tag
\* generation, the cleanup callback) raises an Exception; at most one does per turn.
Did(entries, s) == [did |-> entries, store |-> s]

\* The calls of the step at pc whose exception no handler catches, each with
\* what the step has done before the call.
FatalSites ==
    CASE pc = "start" -> {Did(<<>>, store)}
      [] pc = "replay" -> {Did(<<>>, store), Did(<<PendingEmit>>, store)}
      [] pc = "read" ->
            LET ex == <<Entry("exhausted", "", "", <<>>, <<>>, 0)>>
                rd == ex \o <<Entry("get_title", "", "", <<>>, store.title, 0)>>
            IN {Did(ex, store)}
               \cup (IF ENABLE_REALTIME_CHAT_SAVE
                     THEN {Did(rd, store)}
                     ELSE {Did(rd, store),
                           Did(rd \o <<UpsertEntry("content", content, 0)>>,
                               UpsertContent(store, content))})
      [] pc \in {"terminal", "bg", "gen_title", "emit_title", "gen_tags", "imm_full"} ->
            {Did(<<>>, store)}
      [] pc = "imm_terminal" -> {Did(<<>>, store), Did(<<DoneEvent(content, title)>>, store)}
      [] pc = "cancelled" ->
            {Did(<<>>, store)}
            \cup (IF ENABLE_REALTIME_CHAT_SAVE THEN {} ELSE {Did(<<CancelledEvent>>, store)})
      [] pc = "cleanup" -> IF response.background THEN {Did(<<>>, store)} ELSE {}
      [] OTHER -> {}

\* the exception leaves post_response_handler (the task ends without reaching
\* the code after the try statement) or process_chat_response
RaiseTarget(who) == IF who = "task" THEN "failed" ELSE "raised"

RaiseFatal ==
    /\ ~raised
    /\ raised' = TRUE
    /\ \E site \in FatalSites :
         /\ trace' = trace \o site.did
         /\ store' = site.store
    /\ pc' = RaiseTarget(caller)
    /\ UNCHANGED <<inputs, payload, locals, registry, caller, cancelAt, result, wire>>

\* inside the chunk loop's try: `except Exception` swallows it and the loop
\* goes on with the next line
RaiseInLoop ==
    /\ ~raised
    /\ raised' = TRUE
    /\ \/ /\ pc = "read"
          /\ nread < MaxChunks
          /\ nread' = nread + 1
          /\ \E line \in alphabet :
               /\ \/ ChunkClass(line) = "selected"
                  \/ ChunkClass(line) = "delta" /\ ENABLE_REALTIME_CHAT_SAVE
               /\ content' = IF ChunkClass(line) = "delta" THEN content \o line.value
                             ELSE content
               /\ trace' = Append(trace, ReadEntry(line, nread + 1))
               /\ upstream' = Append(upstream, line)
          /\ UNCHANGED <<pc, data>>
       \/ /\ pc = "emit"
          /\ pc' = "read"
          /\ UNCHANGED <<content, data, nread, upstream, trace>>
    /\ UNCHANGED <<inputs, payload, store, registry, caller, title, evIdx, cancelAt, result, wire>>

\* inside the tag branch's try: printed and swallowed
RaiseInTags ==
    /\ ~raised
    /\ raised' = TRUE
    /\ \/ /\ pc = "gen_tags"
          /\ trace' = Append(trace, Entry("generate_chat_tags", "ok", "", <<>>, <<>>, 0))
       \/ /\ pc = "emit_tags"
          /\ trace' = trace
    /\ BgReturn
    /\ UNCHANGED <<inputs, payload, locals, store, registry, caller, cancelAt, wire>>

NextFaults == Next \/ RaiseFatal \/ RaiseInLoop \/ RaiseInTags

SpecFaults == Init /\ [][NextFaults]_vars

(* ------------------- the chunk loop on any line ------------------------ *)
\* every kind of line an upstream body can hold
AllLines ==
    {BlankLine, RawJsonLine, DoneLine, GarbageLine, SelectedLine, RoleLine,
     EmptyDeltaLine, UsageLine, DeltaLine("a"), DeltaLine("b")}

\* a detached turn with no pre-accumulated events and no background task
\* requested, as process_chat_response finds it
DetachedTurn ==
    /\ PayloadIdle
    /\ ENABLE_REALTIME_CHAT_SAVE \in BOOLEAN
    /\ metadata = Target
    /\ response = [kind |-> "stream", ctype |-> "text/event-stream", background |-> FALSE,
                   selected |-> FALSE, content |-> <<>>]
    /\ events = <<>>
    /\ tasks = [title |-> "absent", tags |-> FALSE]
    /\ history = <<<<"q1">>>>
    /\ initial \in InitialStores
    /\ store = initial
    /\ registry = {}
    /\ pc = "call"
    /\ caller = "dispatcher"
    /\ content = <<>>
    /\ title = <<>>
    /\ data = NoData
    /\ evIdx = 0
    /\ nread = 0
    /\ upstream = <<>>
    /\ cancelAt = ""
    /\ raised = FALSE
    /\ result = [kind |-> "none", task_id |-> "", ctype |-> "", background |-> FALSE]
    /\ wire = <<>>
    /\ trace = <<>>

InitLines == DetachedTurn /\ alphabet = AllLines

NextLines ==
    \/ DispatchDetached
    \/ TaskStart
    \/ ReadChunk
    \/ EmitChunk
    \/ Finish
    \/ EmitTerminal
    \/ BgStart
    \/ Cleanup
    \/ Cancel
    \/ HandleCancel

SpecLines == InitLines /\ [][NextLines]_vars

(* --------------- a detached turn under fair scheduling ----------------- *)
\* the steps of the detached task itself, a raising collaborator call included;
\* the event loop runs the task whenever it can take a step
TaskSteps ==
    \/ DispatchDetached
    \/ TaskStart
    \/ ReadChunk
    \/ EmitChunk
    \/ Finish
    \/ EmitTerminal
    \/ BgStart
    \/ Cleanup
    \/ HandleCancel
    \/ RaiseFatal
    \/ RaiseInLoop

InitDetached == DetachedTurn /\ alphabet = StreamAlphabet

NextDetached == TaskSteps \/ Cancel

SpecDetachedFair == InitDetached /\ [][NextDetached]_vars /\ WF_vars(TaskSteps)

(* ===================== process_chat_payload ============================ *)
\* process_chat_response is not running: its state stays as constructed
ResponseIdle ==
    /\ alphabet = StreamAlphabet
    /\ ENABLE_REALTIME_CHAT_SAVE = FALSE
    /\ metadata = Target
    /\ response = [kind |-> "stream", ctype |-> "text/event-stream", background |-> FALSE,
                   selected |-> FALSE, content |-> <<>>]
    /\ events = <<>>
    /\ tasks = [title |-> "absent", tags |-> FALSE]
    /\ history = <<<<"q1">>>>
    /\ initial = [exists |-> FALSE, content |-> <<>>, selectedModelId |-> FALSE,
                  sources |-> {}, title |-> <<"T0">>, tags |-> FALSE]
    /\ store = initial
    /\ registry = {}
    /\ caller = "dispatcher"
    /\ content = <<>>
    /\ title = <<>>
    /\ data = NoData
    /\ evIdx = 0
    /\ nread = 0
    /\ upstream = <<>>
    /\ cancelAt = ""
    /\ raised = FALSE
    /\ result = [kind |-> "none", task_id |-> "", ctype |-> "", background |-> FALSE]
    /\ wire = <<>>
    /\ trace = <<>>

\* the state of the two stages before process_chat_payload runs them
StagesFresh ==
    /\ filter_ids = <<>>
    /\ fidx = 0
    /\ envelope = form_data
    /\ skip_files = "None"
    /\ user = 0
    /\ tools = NoTools
    /\ selected = NoSelection
    /\ sources = <<>>
    /\ calls = <<>>
    /\ pc = "payload"

Range(f) == {f[i] : i \in DOMAIN f}
\* the lists without repetition over the elements of S, of every length
DistinctSeqs(S) ==
    UNION {{q \in [1..n -> S] : \A i, j \in 1..n : q[i] = q[j] => i = j} :
           n \in 0..Cardinality(S)}
\* the orders in which the elements of S can be listed, each once
Orderings(S) == {q \in [1..Cardinality(S) -> S] : Range(q) = S}

(* ---------------------- get_filter_function_ids ------------------------ *)
\* get_priority(function_id)
get_priority(function_id) == priority[function_id]

\* list.sort(key=get_priority) is stable: an element goes behind every element
\* whose key is not larger
RECURSIVE InsertByPriority(_, _)
InsertByPriority(sorted, id) ==
    IF sorted = <<>> THEN <<id>>
    ELSE IF get_priority(id) < get_priority(Head(sorted)) THEN <<id>> \o sorted
    ELSE <<Head(sorted)>> \o InsertByPriority(Tail(sorted), id)
RECURSIVE SortByPriority(_)
SortByPriority(ids) ==
    IF ids = <<>> THEN <<>>
    ELSE InsertByPriority(SortByPriority(SubSeq(ids, 1, Len(ids) - 1)), ids[Len(ids)])

\* [filter_id for filter_id in filter_ids if filter_id in enabled_filter_ids]
OnlyEnabled(ids) == SelectSeq(ids, LAMBDA id : id \in enabled)

\* What filter_ids can be before the enabled filter is applied: the global ids
\* in their order, or, for a model with info.meta, list(set(global ids + declared
\* ids)), whose order is the iteration order of a set of strings
UnionStep ==
    IF model.has_meta
    THEN Orderings(Range(global_ids) \cup Range(model.filterIds))
    ELSE {global_ids}

\* filter_ids = get_filter_function_ids(model)
ResolveFilters ==
    /\ pc = "payload"
    /\ \E listed \in UnionStep : filter_ids' = SortByPriority(OnlyEnabled(listed))
    /\ fidx' = 0
    /\ pc' = "chain"
    /\ UNCHANGED <<responding, global_ids, model, enabled, priority, form_data, envelope,
                   skip_files, user, tools, selected, sources, calls>>

(* ---------------- chat_completion_filter_functions_handler ------------- *)
\* One entry of `calls`:
\*   op        "filter" (a filter's module is in hand), "inlet" (its hook is
\*             invoked), "load" (load_function_module_by_id raised),
\*             "get_task_model_id", "get_tools", "generate_chat_completion", "tool"
\*   id        the filter id (0 for the tool stage)
\*   kind      file_handler of a filter, outcome of a call
\*   messages  the messages of the envelope passed
\*   valves    for an inlet taking __user__: the filter whose per-user valves
\*             __user__["valves"] holds, 0 if it has no such entry
\*   args      the keyword names a tool is called with
Call(op, id, kind, messages, valves, args) ==
    [op |-> op, id |-> id, kind |-> kind, messages |-> messages, valves |-> valves,
     args |-> args]

\* What the loop finds for one filter id:
\*   found        Functions.get_function_by_id(filter_id) is not None
\*   loads        the module is cached or load_function_module_by_id returns it
\*   file_handler the module attribute: "absent", "True" or "False"
\*   inlet        "absent", or what the hook does: "same" (returns the body it
\*                got), "rewrite" (returns it with a message added), "raise"
\*   takes_user   the hook's signature has __user__
\*   user_valves  the module's UserValves: "absent", "ok", or "fail" (building
\*                it from the stored per-user valves raises)
Module(file_handler, inlet, takes_user, user_valves) ==
    [found |-> TRUE, loads |-> TRUE, file_handler |-> file_handler, inlet |-> inlet,
     takes_user |-> takes_user, user_valves |-> user_valves]
MissingModule == [Module("absent", "absent", FALSE, "absent") EXCEPT !.found = FALSE]
UnloadableModule == [Module("absent", "absent", FALSE, "absent") EXCEPT !.loads = FALSE]

\* the filter modules explored
Modules ==
    {MissingModule, UnloadableModule, Module("True", "absent", FALSE, "absent")}
    \cup {Module(fh, "same", FALSE, "absent") : fh \in {"absent", "True", "False"}}
    \cup {Module("absent", hook, FALSE, "absent") : hook \in {"rewrite", "raise"}}
    \cup {Module("absent", "same", TRUE, uv) : uv \in {"absent", "ok", "fail"}}

\* if hasattr(function_module, "file_handler"): skip_files = function_module.file_handler
SkipFilesAfter(current, m) == IF m.file_handler = "absent" THEN current ELSE m.file_handler

\* params["__user__"]["valves"] = function_module.UserValves(...): the entry is
\* written into the __user__ mapping of extra_params, which every filter shares
UserAfter(current, id, m) ==
    IF m.takes_user /\ m.user_valves = "ok" THEN id ELSE current

\* what the hook is handed as __user__["valves"]
ValvesPassed(current, id, m) == IF m.takes_user THEN UserAfter(current, id, m) ELSE 0

\* body = inlet(**params)
InletResult(env, m) ==
    IF m.inlet = "rewrite" THEN [env EXCEPT !.messages = Append(@, "f")] ELSE env

\* Functions.get_user_valves_by_id_and_user_id(filter_id, user id) and the
\* UserValves built from it, when the hook takes __user__ and the module has
\* UserValves
UserValvesCalls(id, m) ==
    IF m.takes_user /\ m.user_valves # "absent"
    THEN <<Call("user_valves", id, m.user_valves, <<>>, 0, {})>>
    ELSE <<>>

\* variant: a failing UserValves ends the chain like a failing hook
UserValvesFailAborts == "payload_raised"
\* except Exception as e: print(e), and the iteration goes on to the hook
UserValvesFailTarget == "chain"

\* variant: the exception is printed and the loop goes on
InletRaiseSwallowed == "chain"
\* where an inlet's exception goes: the handler re-raises it and
\* process_chat_payload raises Exception(f"Error: {e}")
InletRaiseTarget == "payload_raised"

\* one iteration of `for filter_id in filter_ids`
RunFilter ==
    /\ pc = "chain"
    /\ fidx < Len(filter_ids)
    /\ fidx' = fidx + 1
    /\ \E m \in Modules :
         LET id == filter_ids[fidx + 1]
             seen == Call("filter", id, m.file_handler, <<>>, 0, {})
             hook == Call("inlet", id, m.inlet, envelope.messages,
                          ValvesPassed(user, id, m), {})
         IN IF ~m.found
            THEN UNCHANGED <<pc, envelope, skip_files, user, calls>>
            ELSE IF ~m.loads
            THEN /\ calls' = Append(calls, Call("load", id, "raise", <<>>, 0, {}))
                 /\ pc' = "payload_raised"
                 /\ UNCHANGED <<envelope, skip_files, user>>
            ELSE /\ skip_files' = SkipFilesAfter(skip_files, m)
                 /\ IF m.inlet = "absent"
                    THEN /\ calls' = Append(calls, seen)
                         /\ UNCHANGED <<pc, envelope, user>>
                    ELSE /\ calls' = calls \o <<seen>> \o UserValvesCalls(id, m) \o <<hook>>
                         /\ user' = UserAfter(user, id, m)
                         /\ envelope' = InletResult(envelope, m)
                         /\ pc' = IF m.inlet = "raise" THEN InletRaiseTarget
                                  ELSE IF m.takes_user /\ m.user_valves = "fail"
                                  THEN UserValvesFailTarget
                                  ELSE pc
    /\ UNCHANGED <<responding, global_ids, model, enabled, priority, form_data, filter_ids,
                   tools, selected, sources>>

\* if skip_files and "files" in body.get("metadata", {}): del body["metadata"]["files"]
DropFiles(env, skip) ==
    IF skip = "True" /\ env.metadata.present /\ env.metadata.files # "absent"
    THEN [env EXCEPT !.metadata.files = "absent"]
    ELSE env

\* the loop is over: the handler returns body, {}
EndChain ==
    /\ pc = "chain"
    /\ fidx = Len(filter_ids)
    /\ envelope' = DropFiles(envelope, skip_files)
    /\ pc' = "chain_done"
    /\ UNCHANGED <<responding, global_ids, model, enabled, priority, form_data, filter_ids,
                   fidx, skip_files, user, tools, selected, sources, calls>>

(* ------------------------ process_chat_payload ------------------------- *)
\* tool_ids = form_data.pop("tool_ids", None); files = form_data.pop("files", None);
\* form_data["metadata"] = {**metadata, "tool_ids": tool_ids, "files": files}
WithMetadata(env) ==
    [messages |-> env.messages, files |-> FALSE, tool_ids |-> FALSE,
     metadata |-> Metadata(TRUE, IF env.files THEN "some" ELSE "none", env.tool_ids)]

\* between the two stages
PrepareTools ==
    /\ pc = "chain_done"
    /\ envelope' = WithMetadata(envelope)
    /\ pc' = "tools"
    /\ UNCHANGED <<responding, global_ids, model, enabled, priority, form_data, filter_ids,
                   fidx, skip_files, user, tools, selected, sources, calls>>

(* -------------------- chat_completion_tools_handler -------------------- *)
\* the one tool the declared tool ids resolve to, and the parameter names its
\* spec marks as required
ToolName == "lookup"
RequiredParams == {"q"}

\* {"source": {...}, "document": [text], "metadata": [...]}: `named` tells whether
\* the source carries the TOOL:... name (the tool's citation flag)
SourceRecord(named, text) == [named |-> named, document |-> <<text>>]

\* up to the sub-call: tool_ids is read, the task model and the tools are
\* resolved; an exception of either leaves the handler and is logged by
\* process_chat_payload
StartTools ==
    /\ pc = "tools"
    /\ IF ~envelope.metadata.tool_ids
       THEN /\ pc' = "payload_done"
            /\ UNCHANGED <<skip_files, tools, sources, calls>>
       ELSE /\ skip_files' = "False"
            /\ sources' = <<>>
            /\ \/ /\ calls' = Append(calls, Call("get_task_model_id", 0, "raise",
                                                 <<>>, 0, {}))
                  /\ pc' = "payload_done"
                  /\ UNCHANGED tools
               \/ /\ calls' = Append(calls, Call("get_tools", 0, "raise", <<>>, 0, {}))
                  /\ pc' = "payload_done"
                  /\ UNCHANGED tools
               \/ /\ \E citation, file_handler \in BOOLEAN :
                       tools' = [resolved |-> TRUE, citation |-> citation,
                                 file_handler |-> file_handler]
                  /\ calls' = Append(calls, Call("get_tools", 0, "ok", envelope.messages,
                                                 0, {}))
                  /\ pc' = "subcall"
    /\ UNCHANGED <<responding, global_ids, model, enabled, priority, form_data, filter_ids,
                   fidx, envelope, user, selected>>

\* What the sub-call gives:
\*   status  "raise" (generate_chat_completion or reading its content raises),
\*           "empty" (content is None or ""), "nojson" (no "{" ... "}" in it),
\*           "badjson" (the text from the first "{" to the last "}" is not JSON),
\*           "object" (that text parses; noise around it is cut off)
\*   name    result.get("name"): "" when the object has no name
\*   params  the keys of result.get("parameters", {})
\*   mapping whether "parameters" is a JSON object
Content(status, name, params, mapping) ==
    [status |-> status, name |-> name, params |-> params, mapping |-> mapping]
SubCallResults ==
    {Content(st, "", {}, TRUE) : st \in {"raise", "empty", "nojson", "badjson"}}
    \cup {Content("object", n, {}, TRUE) : n \in {"", "other"}}
    \cup {Content("object", ToolName, ps, TRUE) : ps \in SUBSET {"q", "x"}}
    \cup {Content("object", ToolName, {}, FALSE)}

\* variant: any named tool counts as resolved
SelectsAnyName(c) == c.status = "object" /\ c.name # ""
\* the sub-call content selects a resolved tool
Selects(c) == c.status = "object" /\ c.name = ToolName

\* how the sub-call went, for `calls`: its status, and for a parsed object
\* whether it names a resolved tool ("selected", "malformed" when its
\* parameters are not an object) or not ("unresolved")
SubCallKind(c) ==
    IF c.status # "object" THEN c.status
    ELSE IF c.name # ToolName THEN "unresolved"
    ELSE IF c.mapping THEN "selected" ELSE "malformed"

\* variant: every parsed argument is passed on
AllParams(params) == params
\* {k: v for k, v in tool_function_params.items() if k in required_params}
OnlyRequired(params) == params \cap RequiredParams

\* if tools[tool_function_name]["file_handler"]: skip_files = True
ToolSkipFiles(is_text) == IF is_text /\ tools.file_handler THEN "True" ELSE "False"

\* response = await generate_chat_completion(...), the content is read and
\* parsed, up to the await of the tool
SubCall ==
    /\ pc = "subcall"
    /\ \E c \in SubCallResults :
         /\ calls' = Append(calls, Call("generate_chat_completion", 0, SubCallKind(c),
                                        envelope.messages, 0, c.params))
         /\ IF ~Selects(c)
            THEN /\ pc' = "payload_done"
                 /\ UNCHANGED <<envelope, skip_files, selected, sources>>
            ELSE IF ~c.mapping
            \* .items() raises inside the try around the invocation
            THEN /\ sources' = Append(sources, SourceRecord(tools.citation, "AttributeError"))
                 /\ skip_files' = ToolSkipFiles(TRUE)
                 /\ envelope' = DropFiles(envelope, ToolSkipFiles(TRUE))
                 /\ pc' = "payload_done"
                 /\ UNCHANGED selected
            ELSE /\ selected' = [name |-> c.name, params |-> c.params, mapping |-> TRUE]
                 /\ pc' = "invoke"
                 /\ UNCHANGED <<envelope, skip_files, sources>>
    /\ UNCHANGED <<responding, global_ids, model, enabled, priority, form_data, filter_ids,
                   fidx, user, tools>>

\* what the tool callable does: returns text ("42"), returns something that is
\* not a str, or raises ("boom"); without a required argument the call raises
ToolOutcomes(args) ==
    IF RequiredParams \subseteq args THEN {"text", "value", "raise"} ELSE {"raise"}
ToolOutput(outcome) == IF outcome = "text" THEN "42" ELSE "boom"

\* the sources after the invocation
SourcesAfter(srcs, outcome) ==
    IF outcome = "value" THEN srcs
    ELSE Append(srcs, SourceRecord(tools.citation, ToolOutput(outcome)))

\* tool_output = await tool_function(**tool_function_params), to the return
InvokeTool ==
    /\ pc = "invoke"
    /\ \E outcome \in ToolOutcomes(OnlyRequired(selected.params)) :
         /\ calls' = Append(calls, Call("tool", 0, outcome, <<>>, 0,
                                        OnlyRequired(selected.params)))
         /\ sources' = SourcesAfter(sources, outcome)
         /\ skip_files' = ToolSkipFiles(outcome # "value")
         /\ envelope' = DropFiles(envelope, ToolSkipFiles(outcome # "value"))
    /\ pc' = "payload_done"
    /\ UNCHANGED <<responding, global_ids, model, enabled, priority, form_data, filter_ids,
                   fidx, user, tools, selected>>

(* ------------------- specifications of the request side ---------------- *)
NextPayload ==
    \/ ResolveFilters
    \/ RunFilter
    \/ EndChain
    \/ PrepareTools
    \/ StartTools
    \/ SubCall
    \/ InvokeTool

\* chains of up to MaxChain filters, all enabled, of one priority, run in the
\* order the installation lists them
InitPayload ==
    /\ ResponseIdle
    /\ \E n \in 0..MaxChain : global_ids = [i \in 1..n |-> i]
    /\ model = [has_meta |-> FALSE, filterIds |-> <<>>]
    /\ enabled = FilterIds
    /\ priority = [f \in FilterIds |-> 0]
    /\ form_data \in Envelopes
    /\ StagesFresh

SpecPayload == InitPayload /\ [][NextPayload]_vars

\* every configuration of up to MaxFilters filter functions
InitResolve ==
    /\ ResponseIdle
    /\ global_ids \in DistinctSeqs(FilterIds)
    /\ \E has_meta \in BOOLEAN :
         \E declared \in (IF has_meta THEN DistinctSeqs(FilterIds) ELSE {<<>>}) :
             model = [has_meta |-> has_meta, filterIds |-> declared]
    /\ enabled \in SUBSET FilterIds
    /\ priority \in [FilterIds -> {0, 1}]
    /\ form_data = [messages |-> <<"u1">>, files |-> FALSE, tool_ids |-> FALSE,
                    metadata |-> NoMetadata]
    /\ StagesFresh

NextResolve == ResolveFilters

SpecResolve == InitResolve /\ [][NextResolve]_vars

(* =========================== properties ================================ *)
Idx == DOMAIN trace
ContentWrites == {i \in Idx : trace[i].op = "upsert" /\ trace[i].tag = "content"}
Emits == {i \in Idx : trace[i].op = "emit"}
CompletionEmits == {i \in Emits : trace[i].tag = "chat:completion"}
DoneEmits == {i \in CompletionEmits : trace[i].shape = "done"}
CancelledEmits == {i \in Emits : trace[i].tag = "task-cancelled"}
OpIdx(op) == {i \in Idx : trace[i].op = op}
Max(S) == CHOOSE m \in S : \A x \in S : x <= m
Min(S) == CHOOSE m \in S : \A x \in S : m <= x

\* the content persisted for (chat_id, message_id) before the turn
InitialContent == IF initial.exists THEN initial.content ELSE <<>>
\* the content persisted now ("" when there is no message)
StoredContent == IF store.exists THEN store.content ELSE <<>>

\* a line whose JSON event has a non-empty content delta
CarriesDelta(line) ==
    ~line.blank /\ line.prefix /\ line.body = "delta" /\ line.value # <<>>
RECURSIVE DeltasOf(_)
DeltasOf(ls) ==
    IF ls = <<>> THEN <<>>
    ELSE (IF CarriesDelta(Head(ls)) THEN Head(ls).value ELSE <<>>) \o DeltasOf(Tail(ls))

Detached == caller = "task"
\* the task has left post_response_handler's try statement
AfterTry == pc \in {"cleanup", "done", "aborted"}
\* the CancelledError arrived while the chunk loop was running
MidStreamCancel == cancelAt \in {"read", "emit"}

\* C1: with real-time persistence off, a task cancelled in the chunk loop makes
\* exactly one content write, of the initial content followed by the deltas
\* consumed so far, emits task-cancelled, emits no terminal event, and emits
\* nothing after task-cancelled.
C1_CancelSavesPartialOnce ==
    (Detached /\ ~ENABLE_REALTIME_CHAT_SAVE /\ MidStreamCancel /\ AfterTry) =>
        /\ Cardinality(ContentWrites) = 1
        /\ \A i \in ContentWrites : trace[i].content = InitialContent \o DeltasOf(upstream)
        /\ store.exists /\ store.content = InitialContent \o DeltasOf(upstream)
        /\ Cardinality(CancelledEmits) = 1
        /\ DoneEmits = {}
        /\ \A i \in CancelledEmits : \A j \in Emits : j <= i

C1_Witness ==
    /\ Detached /\ ~ENABLE_REALTIME_CHAT_SAVE /\ cancelAt = "read" /\ pc = "done"
    /\ DeltasOf(upstream) = <<"a", "b">>
    /\ store.content = <<"x", "a", "b">>
    /\ CancelledEmits # {}

\* C2: with real-time persistence off, no content write happens while the loop
\* runs; an exhausted, uncancelled stream gets exactly one content write, of the
\* initial content followed by all deltas, which the terminal event carries too;
\* and a turn never makes more than one content write.
C2_SingleDeferredWrite ==
    (Detached /\ ~ENABLE_REALTIME_CHAT_SAVE) =>
        /\ (pc \in {"start", "replay", "read", "emit"}) => ContentWrites = {}
        /\ (cancelAt = "" /\ pc \in {"bg", "cleanup", "done"} /\ OpIdx("exhausted") # {}) =>
              /\ Cardinality(ContentWrites) = 1
              /\ \A i \in ContentWrites :
                    trace[i].content = InitialContent \o DeltasOf(upstream)
              /\ \A i \in DoneEmits :
                    trace[i].content = InitialContent \o DeltasOf(upstream)
              /\ DoneEmits # {}
        /\ Cardinality(ContentWrites) <= 1

\* C3: when the upstream response has a cleanup callback, a finished run of the
\* consumer has invoked it exactly once, as its last action.
C3_CleanupOnceAtEnd ==
    (Detached /\ response.background /\ pc \in {"done", "aborted", "failed"}) =>
        /\ Cardinality(OpIdx("background")) = 1
        /\ trace[Len(trace)].op = "background"

\* the stream ended and the code after the loop has run up to the terminal emit
Exhausted == OpIdx("exhausted") # {}
\* the content the store holds for the message just before trace[i] happens
StoredContentAt(i) ==
    LET ws == {j \in ContentWrites : j < i}
    IN IF ws = {} THEN InitialContent ELSE trace[Max(ws)].content
\* the writes that carry the content c
WritesOf(c) == {j \in ContentWrites : trace[j].content = c}

RECURSIVE EventText(_)
\* the contents carried by the non-terminal chat:completion events, concatenated
EventText(tr) ==
    IF tr = <<>> THEN <<>>
    ELSE (IF Head(tr).op = "emit" /\ Head(tr).tag = "chat:completion"
             /\ Head(tr).shape \in {"delta", "content"}
          THEN Head(tr).content ELSE <<>>) \o EventText(Tail(tr))

RECURSIVE ReadText(_)
\* the non-empty deltas of the lines read, concatenated
ReadText(tr) ==
    IF tr = <<>> THEN <<>>
    ELSE (IF Head(tr).op = "read" /\ Head(tr).tag = "delta" THEN Head(tr).content ELSE <<>>)
         \o ReadText(Tail(tr))

ContentEvents == {i \in CompletionEmits : trace[i].shape = "content"}

\* C5 as claimed: after exhaustion the contents carried by the non-terminal
\* chat:completion events concatenate to the persisted content.
C5_EventsConcatToStored ==
    (Detached /\ Exhausted) => EventText(trace) = StoredContent

\* C5, amended: after exhaustion, with real-time persistence on, the initial
\* content followed by the deltas the events carry is the persisted content; with
\* it off every delta event carries the full running content (initial content
\* plus the deltas read so far) and the last one, or the initial content when
\* there is none, is the persisted content.
C5_EventsRebuildStored ==
    Detached =>
        LET full == ContentEvents
        IN /\ \A i \in full :
                 trace[i].content = InitialContent \o ReadText(SubSeq(trace, 1, i))
           /\ Exhausted =>
                 IF ENABLE_REALTIME_CHAT_SAVE
                 THEN /\ InitialContent \o EventText(trace) = StoredContent
                      /\ full = {}
                 ELSE /\ StoredContent = InitialContent \o ReadText(trace)
                      /\ full # {} => trace[Max(full)].content = StoredContent
                      /\ full = {} => StoredContent = InitialContent
                      /\ \A i \in CompletionEmits : trace[i].shape # "delta"

C5_Witness ==
    /\ Detached /\ Exhausted /\ pc = "done" /\ ENABLE_REALTIME_CHAT_SAVE
    /\ EventText(trace) = <<"a", "b">>
    /\ StoredContent = <<"x", "a", "b">>

\* the terminal event has been emitted and the task was never cancelled
PastTerminal ==
    /\ Detached /\ cancelAt = ""
    /\ pc \in {"bg", "gen_title", "emit_title", "gen_tags", "emit_tags", "cleanup", "done"}
HandlerOps == {"generate_title", "set_title", "generate_chat_tags", "set_tags"}
HandlerIdx ==
    {i \in Idx : trace[i].op \in HandlerOps
                 \/ (trace[i].op = "emit" /\ trace[i].tag \in {"chat:title", "chat:tags"})}

\* C6 as claimed: the terminal event is emitted twice, once before and once
\* after the final content write.
C6_TerminalEmittedTwice ==
    PastTerminal =>
        /\ Cardinality(DoneEmits) = 2
        /\ ~ENABLE_REALTIME_CHAT_SAVE =>
              \E w \in ContentWrites : Min(DoneEmits) < w /\ w < Max(DoneEmits)

\* C6, amended: on exhaustion the consumer reads the title, writes the final
\* content if real-time persistence is off, looks up the user's presence and fires
\* the webhook if the user is idle with a URL, emits the terminal event exactly
\* once, and only then runs the background completion handler.
C6_ExhaustionOrder ==
    (Detached /\ Exhausted) =>
        LET x == Min(OpIdx("exhausted"))
            p == IF ENABLE_REALTIME_CHAT_SAVE THEN x + 2 ELSE x + 3
            d == IF trace[p].tag = "idle_url" THEN p + 2 ELSE p + 1
            final == InitialContent \o DeltasOf(upstream)
            dones == DoneEmits
            writes == ContentWrites
        IN /\ trace[x + 1].op = "get_title"
           /\ ~ENABLE_REALTIME_CHAT_SAVE =>
                 /\ trace[x + 2] = UpsertEntry("content", final, 0)
                 /\ \A w \in writes : w >= x + 2
           /\ ENABLE_REALTIME_CHAT_SAVE => \A w \in writes : w < x
           /\ trace[p].op = "presence"
           /\ OpIdx("webhook") = (IF trace[p].tag = "idle_url" THEN {p + 1} ELSE {})
           /\ dones \subseteq {d}
           /\ \A i \in dones : trace[i] = DoneEvent(final, trace[x + 1].title)
           /\ PastTerminal => dones = {d}
           /\ \A h \in HandlerIdx : dones = {d} /\ d < h

C6_Witness ==
    /\ PastTerminal /\ pc = "done" /\ ~ENABLE_REALTIME_CHAT_SAVE
    /\ OpIdx("webhook") # {}
    /\ HandlerIdx # {}
    /\ Cardinality(DoneEmits) = 1

DeltaReads == {i \in Idx : trace[i].op = "read" /\ trace[i].tag = "delta"
                           /\ trace[i].content # <<>>}

\* C7: with real-time persistence on, every non-empty delta consumed is followed
\* at once by one content write carrying the full running content; the write
\* comes before the delta's own event and before the next line is read; there
\* are no other content writes; and every written value extends the one before.
C7_RealtimeWritesInOrder ==
    (Detached /\ ENABLE_REALTIME_CHAT_SAVE) =>
        LET reads == DeltaReads
            writes == ContentWrites
        IN /\ \A i \in reads :
                 /\ i + 1 \in writes
                 /\ trace[i + 1].content = InitialContent \o ReadText(SubSeq(trace, 1, i))
           /\ \A w \in writes : w - 1 \in reads
           /\ \A e \in CompletionEmits :
                 trace[e].shape = "delta" =>
                     /\ e - 1 \in writes
                     /\ e - 2 \in reads
                     /\ trace[e].content = trace[e - 2].content
           /\ \A i, j \in writes :
                 i < j => IsPrefix(trace[i].content, trace[j].content)
           /\ writes # {} => StoredContent = trace[Max(writes)].content

C7_Witness ==
    /\ Detached /\ ENABLE_REALTIME_CHAT_SAVE /\ pc = "done"
    /\ Cardinality(ContentWrites) = 2
    /\ DeltasOf(upstream) = <<"a", "b">>
    /\ StoredContent = <<"x", "a", "b">>

\* session_id, chat_id and message_id are all present and non-empty
LiveTarget ==
    \A k \in {"session_id", "chat_id", "message_id"} : metadata[k] \notin {"missing", ""}
StreamTyped ==
    /\ response.kind = "stream"
    /\ response.ctype \in {"text/event-stream", "application/x-ndjson"}

\* C8: a stream-typed streaming response with a live target makes
\* process_chat_response register exactly one task and return
\* {status: true, task_id} with that task's id; when it returns no line has been
\* read, no event emitted and nothing written.
C8_DetachedReturnsHandle ==
    /\ (pc # "call" /\ StreamTyped /\ LiveTarget) =>
          /\ result.kind = "task"
          /\ registry = {result.task_id}
          /\ Cardinality(OpIdx("create_task")) = 1
          /\ trace[1].op = "create_task" /\ trace[1].tag = result.task_id
          /\ pc = "start" => Len(trace) = 1 /\ store = initial /\ upstream = <<>>
    /\ ~(StreamTyped /\ LiveTarget) => registry = {} /\ result.kind # "task"

C8_Witness ==
    /\ StreamTyped /\ LiveTarget /\ pc = "done"
    /\ response.ctype = "application/x-ndjson"
    /\ result.kind = "task" /\ result.task_id \in registry
    /\ Len(upstream) = MaxChunks

\* what the wrapped stream must yield: the events, framed, then the lines
ExpectedWire ==
    [i \in 1..Len(events) |-> [framed |-> TRUE, event |-> events[i], line |-> BlankLine]]
    \o [i \in 1..Len(upstream) |-> [framed |-> FALSE, event |-> 0, line |-> upstream[i]]]

\* C9: without a live target process_chat_response has no side effect (no event,
\* store write, webhook or task); it returns the response itself for an immediate
\* response or a non-stream content type, and otherwise a stream with the
\* original headers and cleanup callback that yields the pre-accumulated events
\* in order and then the original lines in order.
C9_NoTargetNoEffects ==
    ~LiveTarget =>
        /\ trace = <<>> /\ registry = {} /\ store = initial
        /\ pc # "call" =>
              IF StreamTyped
              THEN /\ result.kind = "wrapped"
                   /\ result.ctype = response.ctype
                   /\ result.background = response.background
                   /\ Len(wire) <= Len(ExpectedWire)
                   /\ wire = SubSeq(ExpectedWire, 1, Len(wire))
                   /\ pc = "wrap_done" => wire = ExpectedWire
              ELSE /\ result.kind = "response"
                   /\ pc = "returned"
                   /\ wire = <<>>

C9_Witness ==
    /\ ~LiveTarget /\ pc = "wrap_done"
    /\ metadata.session_id = ""
    /\ Len(events) = MaxEvents /\ Len(upstream) = MaxChunks
    /\ Len(wire) = MaxEvents + MaxChunks
    /\ response.background

\* C10: an immediate response with a live target and non-empty content makes
\* process_chat_response emit the full response, emit the terminal event with
\* the stored title, write the content, fire the webhook exactly when the user is
\* idle and has a URL, run the title/tag logic to its end, and only then return
\* the response, each once and in this order; with empty content no event is
\* emitted and no content written.
C10_ImmediateOrder ==
    (response.kind = "immediate" /\ LiveTarget) =>
        /\ (result.kind # "none") <=> (pc = "returned")
        /\ pc = "returned" =>
              /\ result.kind = "response"
              /\ IF response.content = <<>>
                 THEN Emits = {} /\ ContentWrites = {} /\ OpIdx("webhook") = {}
                      /\ HandlerIdx = {}
                 ELSE LET o == IF response.selected THEN 1 ELSE 0
                      IN /\ trace[o + 1] = EmitEntry("chat:completion", "response",
                                                     response.content, <<>>, 0)
                         /\ trace[o + 2] = DoneEvent(response.content, initial.title)
                         /\ trace[o + 3] = UpsertEntry("content", response.content, 0)
                         /\ trace[o + 4].op = "presence"
                         /\ OpIdx("webhook") =
                               (IF trace[o + 4].tag = "idle_url" THEN {o + 5} ELSE {})
                         /\ CompletionEmits = {o + 1, o + 2}
                         /\ ContentWrites = {o + 3}
                         /\ \A h \in HandlerIdx : h > o + 4
                         /\ tasks.title = "on" => OpIdx("generate_title") # {}
                         /\ (tasks.title = "off" /\ Len(history) = 1) =>
                               /\ OpIdx("set_title") # {}
                               /\ \E e \in Emits : trace[e].tag = "chat:title"
                         /\ tasks.tags => OpIdx("generate_chat_tags") # {}
                         /\ StoredContent = response.content

C10_Witness ==
    /\ response.kind = "immediate" /\ LiveTarget /\ pc = "returned"
    /\ response.content # <<>>
    /\ OpIdx("webhook") # {}
    /\ OpIdx("set_tags") # {}
    /\ \E e \in Emits : trace[e].tag = "chat:title"

(* ================== properties of the request side ===================== *)
CallIdx == DOMAIN calls
CallsOf(op) == {i \in CallIdx : calls[i].op = op}
\* the hook invocations that raised
RaisedInlets == {i \in CallsOf("inlet") : calls[i].kind = "raise"}
ToolStageOps == {"get_task_model_id", "get_tools", "generate_chat_completion", "tool"}
ToolStageCalls == {i \in CallIdx : calls[i].op \in ToolStageOps}

\* C11: when a filter's inlet raises, no later filter is executed, the tool
\* stage and the sub-call never run, and process_chat_payload raises; it raises
\* only for an exception of the filter chain.
C11_InletRaiseAbortsTurn ==
    /\ \A i \in RaisedInlets :
          /\ i = Len(calls)
          /\ pc = "payload_raised"
          /\ fidx <= Len(filter_ids)
          /\ calls[i].id = filter_ids[fidx]
          /\ \A j \in CallsOf("filter") : \E k \in 1..fidx : filter_ids[k] = calls[j].id
    /\ pc = "payload_raised" =>
          /\ ToolStageCalls = {}
          /\ calls[Len(calls)].kind = "raise"
          /\ calls[Len(calls)].op \in {"inlet", "load"}

C11_Witness ==
    /\ pc = "payload_raised"
    /\ Len(filter_ids) = 2 /\ fidx = 1
    /\ RaisedInlets = {Len(calls)}
    /\ form_data.tool_ids

\* the union of the global and the model-declared ids as the claim lists it:
\* global ids first, then the declared ids not yet listed, in their given order
GivenUnion ==
    global_ids \o SelectSeq(model.filterIds, LAMBDA id : id \notin Range(global_ids))

\* C12 as claimed: the filters run in the order of the union of global and
\* model-declared ids (global first, then declared, as given), restricted to the
\* enabled ids and stably sorted by ascending priority.
C12_StableOverGivenUnion ==
    pc = "chain" => filter_ids = SortByPriority(OnlyEnabled(GivenUnion))

\* the executed filters whose module has a true file_handler
SuppressingFilters == {i \in CallsOf("filter") : calls[i].kind = "True"}

\* C13 as claimed: when the chain has completed, the envelope's metadata has no
\* files entry if any executed filter has a true file_handler, and is as it was
\* handed in otherwise.
C13_AnySuppressionDropsFiles ==
    pc = "chain_done" =>
        IF SuppressingFilters # {}
        THEN envelope.metadata.files = "absent"
        ELSE envelope.metadata = form_data.metadata

\* the messages the filter chain hands on: those handed in, and one more for
\* every inlet that rewrote the body
RewritingInlets == {i \in CallsOf("inlet") : calls[i].kind = "rewrite"}
MessagesAfterChain ==
    form_data.messages \o [i \in 1..Cardinality(RewritingInlets) |-> "f"]

\* the calls of the tool stage that fail it: a resolution that raised, a
\* sub-call that raised, or one whose content is empty, holds no JSON object,
\* holds an unparsable one, or names no resolved tool
FailedToolCalls ==
    {i \in ToolStageCalls :
        \/ calls[i].op \in {"get_task_model_id", "get_tools"} /\ calls[i].kind = "raise"
        \/ /\ calls[i].op = "generate_chat_completion"
           /\ calls[i].kind \in {"raise", "empty", "nojson", "badjson", "unresolved"}}

\* C14: in a turn that declares tool ids, when resolution or the sub-call fails
\* or the content selects no resolved tool, process_chat_payload returns without
\* raising, no tool has been invoked, the sources are empty, and the envelope
\* holds the messages and the files the stage was given.
C14_ToolStageFailureIsNoOp ==
    FailedToolCalls # {} =>
        /\ form_data.tool_ids
        /\ FailedToolCalls = {Len(calls)}
        /\ pc = "payload_done"
        /\ CallsOf("tool") = {}
        /\ sources = <<>>
        /\ envelope.messages = MessagesAfterChain
        /\ envelope.metadata = Metadata(TRUE, IF form_data.files THEN "some" ELSE "none", TRUE)

C14_Witness ==
    /\ pc = "payload_done"
    /\ calls # <<>>
    /\ calls[Len(calls)].op = "generate_chat_completion"
    /\ calls[Len(calls)].kind = "badjson"
    /\ Cardinality(RewritingInlets) = 1
    /\ form_data.files /\ tools.file_handler

\* the sub-calls whose content names the resolved tool
SelectingCalls ==
    {i \in CallsOf("generate_chat_completion") : calls[i].kind \in {"selected", "malformed"}}

\* C15 as claimed: when the selected tool is resolved, the stage returns having
\* invoked it exactly once, with the parsed arguments that are required; a
\* raising invocation leaves one Source Record with the stringified exception,
\* one that returns text one Source Record with that text.
C15_InvokedOnceWithRequired ==
    (pc = "payload_done" /\ SelectingCalls # {}) =>
        /\ Cardinality(CallsOf("tool")) = 1
        /\ \A s \in SelectingCalls : \A t \in CallsOf("tool") :
              /\ calls[t].args = calls[s].args \cap RequiredParams
              /\ calls[t].kind = "raise" => sources = <<SourceRecord(tools.citation, "boom")>>
              /\ calls[t].kind = "text" => sources = <<SourceRecord(tools.citation, "42")>>

\* C15, amended: when the selected tool is resolved and the parsed parameters
\* are an object, the stage invokes the tool exactly once, with the parsed
\* arguments that are required, and returns without raising: with one Source
\* Record holding the stringified exception if the invocation raised, one
\* holding the text if it returned text, and none if it returned another value.
\* When the parsed parameters are not an object the tool is not invoked and the
\* one Source Record holds the stringified error of reading them.
C15_ToolOutcomeBecomesSource ==
    \A s \in SelectingCalls :
        IF calls[s].kind = "malformed"
        THEN /\ pc = "payload_done"
             /\ CallsOf("tool") = {}
             /\ sources = <<SourceRecord(tools.citation, "AttributeError")>>
        ELSE \/ pc = "invoke" /\ s = Len(calls) /\ sources = <<>>
             \/ /\ pc = "payload_done"
                /\ CallsOf("tool") = {s + 1}
                /\ Len(calls) = s + 1
                /\ calls[s + 1].args = calls[s].args \cap RequiredParams
                /\ sources = (CASE calls[s + 1].kind = "text" ->
                                     <<SourceRecord(tools.citation, "42")>>
                                [] calls[s + 1].kind = "raise" ->
                                     <<SourceRecord(tools.citation, "boom")>>
                                [] OTHER -> <<>>)

C15_Witness ==
    /\ pc = "payload_done"
    /\ CallsOf("tool") # {}
    /\ \A t \in CallsOf("tool") :
          /\ calls[t].kind = "raise"
          /\ calls[t].args = {"q"}
          /\ calls[t - 1].args = {"q", "x"}
    /\ sources = <<SourceRecord(TRUE, "boom")>>

(* ============ further properties of the response side ================== *)
TitleEmits == {i \in Emits : trace[i].tag = "chat:title"}
\* the background completion handler has returned, for a chat of two messages
\* whose title generation is requested but not enabled, and nobody cancelled
FirstExchangeDone ==
    /\ tasks.title = "off" /\ Len(history) = 1
    /\ pc \in {"done", "returned"} /\ cancelAt = ""
    /\ OpIdx("set_title") # {}

\* C16 as claimed: for a chat of two messages with title generation requested
\* but not enabled, the title is set to the first message's content and exactly
\* one chat:title event is emitted, whose data is that same content.
C16_TitleEventCarriesTitle ==
    FirstExchangeDone =>
        /\ store.title = history[1]
        /\ Cardinality(TitleEmits) = 1
        /\ \A e \in TitleEmits : trace[e].content = history[1]

Reads == OpIdx("read")
\* the line whose reading trace[i] records
LineOf(i) == upstream[trace[i].n]
\* a line that is blank, lacks the "data: " prefix or is not JSON
Noise(line) == line.blank \/ ~line.prefix \/ ~ParsesAsJson(line)
\* the running content is past its initial read
InLoopOrAfter == Detached /\ pc \notin {"call", "start", "replay"}

\* C17: a blank, unprefixed or unparsable line (the [DONE] sentinel included)
\* leaves the running content and the store alone and emits nothing: what
\* follows its reading is the next read, the end of the stream or the
\* cancellation. Every line the stream produced was read, and every line with
\* a non-empty delta read after it is appended to the content and emitted.
C17_NoiseIsSkipped ==
    InLoopOrAfter =>
        /\ content = InitialContent \o DeltasOf(upstream)
        /\ Cardinality(Reads) = Len(upstream)
        /\ \A i \in Reads :
              /\ i < Len(trace) /\ Noise(LineOf(i)) =>
                    \/ trace[i + 1].op \in {"read", "exhausted"}
                    \/ trace[i + 1] = CancelledEvent
              /\ CarriesDelta(LineOf(i)) =>
                    LET e == IF ENABLE_REALTIME_CHAT_SAVE THEN i + 2 ELSE i + 1
                    IN \/ /\ e <= Len(trace)
                          /\ trace[e].op = "emit" /\ trace[e].tag = "chat:completion"
                          /\ trace[e].content =
                                (IF ENABLE_REALTIME_CHAT_SAVE THEN LineOf(i).value
                                 ELSE InitialContent
                                      \o DeltasOf(SubSeq(upstream, 1, trace[i].n)))
                       \/ /\ trace[i].n = Len(upstream)
                          /\ pc = "emit" \/ cancelAt = "emit"
        /\ Exhausted => StoredContent = InitialContent \o DeltasOf(upstream)

C17_Witness ==
    /\ Detached /\ pc = "done" /\ cancelAt = ""
    /\ upstream = <<DoneLine, DeltaLine("a")>>
    /\ StoredContent = <<"x", "a">>
    /\ Cardinality(CompletionEmits) = 2

\* the reads and the end of the stream that come after trace[i]
LaterSteps(i) == {j \in Idx : j > i /\ trace[j].op \in {"read", "exhausted"}}
\* the chat:completion events emitted by the iteration that read trace[i]
EmitsOfIteration(i) == {e \in CompletionEmits : i < e /\ e < Min(LaterSteps(i))}

\* C18 as claimed: every line that parses as a JSON event is re-emitted as
\* exactly one chat:completion event by its iteration, whatever it holds; an
\* event with selected_model_id is followed at once by a write of
\* selectedModelId and then by its event, with no content write.
C18_EveryEventReEmitted ==
    InLoopOrAfter =>
        \A i \in Reads :
            ~Noise(LineOf(i)) =>
                /\ LaterSteps(i) # {} => Cardinality(EmitsOfIteration(i)) = 1
                /\ LineOf(i).body = "selected" =>
                      /\ trace[i + 1] = UpsertEntry("selectedModelId", <<>>, 0)
                      /\ i + 1 < Len(trace) =>
                            \/ trace[i + 2] = EmitEntry("chat:completion", "selected",
                                                        <<>>, <<>>, 0)
                            \/ trace[i + 2] = CancelledEvent

\* C19 as claimed: every detached turn eventually delivers a terminal
\* chat:completion event or a task-cancelled event, whatever the collaborators
\* do.
C19_EventuallySignalled ==
    Detached ~> (DoneEmits # {} \/ CancelledEmits # {})

(* ------------- the consumer run again on what it left behind ----------- *)
\* lines of a stream that carries no content delta
ZeroDeltaLines == {RoleLine, EmptyDeltaLine}

\* title tasks as the request may carry them (tag generation left out)
ReplayScenarios ==
    {[title |-> "absent", history |-> <<<<"q1">>>>],
     [title |-> "off", history |-> <<<<"q1">>>>],
     [title |-> "off", history |-> <<<<"q1">>, <<"r1">>, <<"q2">>>>],
     [title |-> "on", history |-> <<<<"q1">>>>]}

\* a detached turn on a message whose content is already persisted
InitReplay ==
    /\ PayloadIdle
    /\ alphabet = ZeroDeltaLines
    /\ ENABLE_REALTIME_CHAT_SAVE \in BOOLEAN
    /\ metadata = Target
    /\ response = [kind |-> "stream", ctype |-> "text/event-stream", background |-> FALSE,
                   selected |-> FALSE, content |-> <<>>]
    /\ events = <<>>
    /\ \E sc \in ReplayScenarios :
         /\ tasks = [title |-> sc.title, tags |-> FALSE]
         /\ history = sc.history
    /\ initial \in {s \in InitialStores : s.exists}
    /\ store = initial
    /\ registry = {}
    /\ pc = "call"
    /\ caller = "dispatcher"
    /\ content = <<>>
    /\ title = <<>>
    /\ data = NoData
    /\ evIdx = 0
    /\ nread = 0
    /\ upstream = <<>>
    /\ cancelAt = ""
    /\ raised = FALSE
    /\ result = [kind |-> "none", task_id |-> "", ctype |-> "", background |-> FALSE]
    /\ wire = <<>>
    /\ trace = <<>>

\* process_chat_response is called a second time for the same message, with
\* the store as the first consumer left it and a fresh stream
Resume ==
    /\ pc = "done"
    /\ Cardinality(DoneEmits) = 1
    /\ initial' = store
    /\ pc' = "call"
    /\ caller' = "dispatcher"
    /\ content' = <<>>
    /\ title' = <<>>
    /\ data' = NoData
    /\ evIdx' = 0
    /\ nread' = 0
    /\ upstream' = <<>>
    /\ result' = [kind |-> "none", task_id |-> "", ctype |-> "", background |-> FALSE]
    /\ UNCHANGED <<ENABLE_REALTIME_CHAT_SAVE, metadata, response, events, tasks, history,
                   alphabet, payload, store, registry, cancelAt, raised, wire, trace>>

NextReplay ==
    \/ DispatchDetached
    \/ TaskStart
    \/ ReadChunk
    \/ EmitChunk
    \/ Finish
    \/ EmitTerminal
    \/ BgStart
    \/ GenTitle
    \/ EmitTitle
    \/ Cleanup
    \/ Resume

SpecReplay == InitReplay /\ [][NextReplay]_vars

\* chat title writes between two positions of the trace
TitleWrites(i, j) == {k \in (i + 1)..(j - 1) : trace[k].op = "set_title"}

\* the persisted content survives, and each terminal event carries it together
\* with the title stored when it is emitted
TerminalCarriesStored ==
    LET d == DoneEmits
    IN /\ store.content = initial.content
       /\ \A i \in d : trace[i].content = initial.content
       /\ pc = "bg" => trace[Len(trace)] = DoneEvent(store.content, store.title)

\* C20 as claimed: a consumer started on persisted content C with no
\* pre-accumulated events and no delta emits the terminal event with C and the
\* stored title and leaves C in the store, and a second run on the resulting
\* state emits the same terminal payload.
C20_ReplaySamePayload ==
    /\ TerminalCarriesStored
    /\ \A i, j \in DoneEmits : trace[i] = trace[j]

\* C20, amended: as above, but the second terminal payload has the same content
\* and the title the first run's background tasks stored, if they stored one;
\* it has the first run's title otherwise.
C20_ReplaySameContent ==
    /\ TerminalCarriesStored
    /\ \A i, j \in DoneEmits :
         i < j =>
           /\ trace[j].content = trace[i].content
           /\ LET w == TitleWrites(i, j)
              IN trace[j].title =
                   IF w = {} THEN trace[i].title
                   ELSE trace[CHOOSE k \in w : \A l \in w : l <= k].title

C20_Witness ==
    /\ pc = "done"
    /\ Cardinality(DoneEmits) = 2
    /\ ~ENABLE_REALTIME_CHAT_SAVE
    /\ store.content = <<"x">>
    /\ \E i \in DoneEmits : trace[i].title # <<"T0">>

(* ============ further properties of the request side =================== *)
\* the UserValves materialisations that raised
FailedUserValves == {i \in CallsOf("user_valves") : calls[i].kind = "fail"}

\* the messages the hook invoked at position i of calls is handed
MessagesBefore(i) ==
    form_data.messages
    \o [k \in 1..Cardinality({j \in RewritingInlets : j < i}) |-> "f"]

\* the position in filter_ids of the filter of the call at i
ChainPos(i) == CHOOSE k \in 1..Len(filter_ids) : filter_ids[k] = calls[i].id

\* C21: when materialising a filter's UserValves raises, the chain is not
\* aborted: that filter's inlet is invoked next, with the envelope as the chain
\* holds it; the chain ends early only for a raise that comes later, and the
\* filters after it are executed in the order of the chain.
C21_UserValvesFailureGoesOn ==
    /\ \A i \in FailedUserValves :
          /\ i < Len(calls)
          /\ calls[i + 1].op = "inlet"
          /\ calls[i + 1].id = calls[i].id
          /\ calls[i + 1].messages = MessagesBefore(i + 1)
          /\ pc = "payload_raised" => (Len(calls) > i + 1 /\ calls[Len(calls)].kind = "raise")
          /\ pc # "payload_raised" => pc \in {"chain", "chain_done", "tools", "subcall",
                                             "invoke", "payload_done"}
          /\ pc # "chain" => (pc = "payload_raised" \/ fidx = Len(filter_ids))
    /\ \A i, j \in CallsOf("filter") : i < j => ChainPos(i) < ChainPos(j)

C21_Witness ==
    /\ pc = "payload_done"
    /\ Len(filter_ids) = 2
    /\ \E i \in FailedUserValves :
          /\ calls[i].id = filter_ids[1]
          /\ \E j \in CallsOf("inlet") : j > i + 1 /\ calls[j].id = filter_ids[2]

\* the UserValves materialisations that succeeded
BuiltUserValves == {i \in CallsOf("user_valves") : calls[i].kind = "ok"}

\* C24 as claimed: the __user__ context handed to a filter's inlet carries a
\* valves entry only if it was materialised from that same filter's per-user
\* configuration; a filter without UserValves, or whose materialisation
\* failed, never receives the valves of a filter that ran earlier.
C24_ValvesOnlyOwn ==
    \A i \in CallsOf("inlet") :
        calls[i].valves # 0 =>
            /\ calls[i].valves = calls[i].id
            /\ (i - 1) \in BuiltUserValves
            /\ calls[i - 1].id = calls[i].id

\* C22 as claimed: when the tool stage has invoked a resolved tool whose
\* descriptor sets file_handler, the envelope it returns has no files entry in
\* its metadata, whatever the tool returned (text, another value, an
\* exception) and whatever the filters asked for.
C22_FileHandlerToolDropsFiles ==
    (pc = "payload_done" /\ CallsOf("tool") # {} /\ tools.file_handler) =>
        envelope.metadata.files = "absent"

\* C23 as claimed: no run of the detached consumer emits both the terminal
\* done event and task-cancelled, and none writes the same final content to
\* the store twice, at whichever await the cancellation arrives.
C23_DoneOrCancelledNotBoth ==
    Detached =>
        /\ ~(DoneEmits # {} /\ CancelledEmits # {})
        /\ \A i, j \in ContentWrites : i < j => trace[i].content # trace[j].content

====
